---- MODULE Spec2Model ----
(***************************************************************************)
(* Model of storage/memorystore.go: MemoryStore, an in-memory metadata     *)
(* store with two maps,                                                    *)
(*   data        role name (plain or "<version>.<role>")  -> blob          *)
(*   consistent  "<role>.<hex sha256>"                    -> blob          *)
(* Names and blobs are strings; the derived names are built by the same    *)
(* string concatenations the code performs, so a caller-chosen name can    *)
(* coincide with a derived one.                                            *)
(***************************************************************************)
EXTENDS Integers, Sequences, FiniteSets, TLC

(***************************************************************************)
(* Bounds of the exploration.                                              *)
(***************************************************************************)
\* number of calls made on the store in a run
MaxCalls == 2
\* envelope blobs carry the versions 0..MaxVersion
MaxVersion == 1

(***************************************************************************)
(* Strings and maps.                                                       *)
(***************************************************************************)
HasPrefix(s, p) == Len(s) >= Len(p) /\ SubSeq(s, 1, Len(p)) = p

HasSuffix(s, p) == Len(s) >= Len(p) /\ SubSeq(s, Len(s) - Len(p) + 1, Len(s)) = p

CharAt(s, i) == SubSeq(s, i, i)

\* the empty Go map
EmptyMap == [n \in {} |-> ""]

\* m[k] = v
MapPut(m, k, v) == [n \in (DOMAIN m) \cup {k} |-> IF n = k THEN v ELSE m[n]]

\* delete(m, k); deleting an absent key is a no-op
MapDelete(m, k) == [n \in (DOMAIN m) \ {k} |-> m[n]]

(***************************************************************************)
(* fmt.Sprintf("%d", n)                                                    *)
(***************************************************************************)
DigitChar(d) == CharAt("0123456789", d + 1)

RECURSIVE NatToString(_)
NatToString(n) ==
    IF n < 10 THEN DigitChar(n)
    ELSE NatToString(n \div 10) \o DigitChar(n % 10)

Itoa(n) == IF n < 0 THEN "-" \o NatToString(0 - n) ELSE NatToString(n)

\* fmt.Sprintf("%d.%s", version, name)
VersionedName(version, name) == Itoa(version) \o "." \o name

(***************************************************************************)
(* json.Unmarshal(meta, &data.SignedMeta{}) on the documents of the model: *)
(* {"signed":{"version":<int>}} decodes with that version, {} decodes with *)
(* the zero version, anything else is a decode error.                      *)
(***************************************************************************)
EnvelopePrefix == "{\"signed\":{\"version\":"

EnvelopeSuffix == "}}"

Versions == 0..MaxVersion

\* a signed-metadata document of the given version
EnvelopeBlob(v) == EnvelopePrefix \o Itoa(v) \o EnvelopeSuffix

\* bytes that are not a JSON document (a raw key)
KeyBlob == "key"

Blobs == {EnvelopeBlob(v) : v \in Versions} \cup {KeyBlob}

IsDigit(c) == \E d \in 0..9 : c = DigitChar(d)

DigitValue(c) == CHOOSE d \in 0..9 : c = DigitChar(d)

\* a JSON integer without sign: "0" or a digit string with no leading zero
IsJSONNat(s) ==
    /\ Len(s) >= 1
    /\ \A i \in 1..Len(s) : IsDigit(CharAt(s, i))
    /\ (Len(s) > 1 => CharAt(s, 1) # "0")

IsJSONInt(s) ==
    IF HasPrefix(s, "-") THEN IsJSONNat(SubSeq(s, 2, Len(s))) ELSE IsJSONNat(s)

RECURSIVE ParseNat(_)
ParseNat(s) ==
    IF Len(s) = 0 THEN 0
    ELSE 10 * ParseNat(SubSeq(s, 1, Len(s) - 1)) + DigitValue(CharAt(s, Len(s)))

ParseInt(s) ==
    IF HasPrefix(s, "-") THEN 0 - ParseNat(SubSeq(s, 2, Len(s))) ELSE ParseNat(s)

EnvelopeNumber(meta) ==
    SubSeq(meta, Len(EnvelopePrefix) + 1, Len(meta) - Len(EnvelopeSuffix))

Decode(meta) ==
    IF meta = "{}" THEN [err |-> "nil", version |-> 0]
    ELSE IF /\ Len(meta) > Len(EnvelopePrefix) + Len(EnvelopeSuffix)
            /\ HasPrefix(meta, EnvelopePrefix)
            /\ HasSuffix(meta, EnvelopeSuffix)
            /\ IsJSONInt(EnvelopeNumber(meta))
         THEN [err |-> "nil", version |-> ParseInt(EnvelopeNumber(meta))]
         ELSE [err |-> "SyntaxError", version |-> 0]

\* Decode, worked out once for each blob of the model
DecodedBlobs == [b \in Blobs |-> Decode(b)]

\* err := json.Unmarshal(meta, parsedMeta)
Unmarshal(meta) == IF meta \in Blobs THEN DecodedBlobs[meta] ELSE Decode(meta)

(***************************************************************************)
(* sha256.Sum256 and utils.ConsistentName.  The digest is scaled to one    *)
(* byte (a polynomial checksum of the bytes, injective on the blobs of the *)
(* model, see DigestInjective); the name is "<role>.<hex of the digest>".  *)
(***************************************************************************)
Lower == "abcdefghijklmnopqrstuvwxyz"

IndexIn(s, c) == CHOOSE i \in 1..Len(s) : CharAt(s, i) = c

\* the byte value (ASCII) of the characters the names and blobs are made of
Ord(c) ==
    IF IsDigit(c) THEN 48 + DigitValue(c)
    ELSE IF \E i \in 1..Len(Lower) : CharAt(Lower, i) = c THEN 96 + IndexIn(Lower, c)
    ELSE IF c = "\"" THEN 34
    ELSE IF c = "-" THEN 45
    ELSE IF c = "." THEN 46
    ELSE IF c = ":" THEN 58
    ELSE IF c = "{" THEN 123
    ELSE IF c = "}" THEN 125
    ELSE 32

RECURSIVE Checksum(_)
Checksum(meta) ==
    IF Len(meta) = 0 THEN 7
    ELSE (31 * Checksum(SubSeq(meta, 1, Len(meta) - 1))
            + Ord(CharAt(meta, Len(meta)))) % 256

\* Checksum, worked out once for each blob of the model
BlobChecksums == [b \in Blobs |-> Checksum(b)]

\* checksum := sha256.Sum256(meta), as a sequence of bytes
Sum256(meta) == <<IF meta \in Blobs THEN BlobChecksums[meta] ELSE Checksum(meta)>>

HexChar(d) == CharAt("0123456789abcdef", d + 1)

RECURSIVE EncodeToString(_)
EncodeToString(bytes) ==
    IF Len(bytes) = 0 THEN ""
    ELSE HexChar(Head(bytes) \div 16) \o HexChar(Head(bytes) % 16)
            \o EncodeToString(Tail(bytes))

ConsistentName(role, hash) ==
    IF Len(hash) > 0 THEN role \o "." \o EncodeToString(hash) ELSE role

(***************************************************************************)
(* The inputs of the exploration: blobs and names.                         *)
(***************************************************************************)
Role == "root"

\* a second role, none of whose derived names is chosen by the caller
OtherRole == "targets"

\* names a caller may choose so that they coincide with names Set derives
\* for Role: a version alias and a consistent name
CraftedNames ==
    {VersionedName(MaxVersion, Role),
     ConsistentName(Role, Sum256(EnvelopeBlob(MaxVersion)))}

NameInputs == {Role, OtherRole} \cup CraftedNames

\* the names looked up: the inputs and every name Set derives for Role
QueryNames ==
    NameInputs
        \cup {VersionedName(v, Role) : v \in Versions}
        \cup {ConsistentName(Role, Sum256(b)) : b \in Blobs}

\* the maps handed to SetMulti
MultiInputs ==
    UNION {[S -> {EnvelopeBlob(MaxVersion), KeyBlob}] :
            S \in SUBSET {Role, VersionedName(MaxVersion, Role)}}

\* the orders in which a range loop may visit the keys S of a map
Orders(S) ==
    {o \in [1..Cardinality(S) -> S] :
        \A i, j \in 1..Cardinality(S) : i # j => o[i] # o[j]}

\* the names handed to GetSized: a role, a name of the digest index, and a
\* role that is seldom stored
SizedNames ==
    {Role, ConsistentName(Role, Sum256(EnvelopeBlob(MaxVersion))), OtherRole}

\* the seed handed to NewMemoryStore: nil or a map
NilSeed == [isNil |-> TRUE, entries |-> EmptyMap]

\* a seed one of whose names is the consistent name of another entry
CraftedSeed ==
    [isNil |-> FALSE,
     entries |->
        [n \in {Role, ConsistentName(Role, Sum256(EnvelopeBlob(MaxVersion)))} |->
            IF n = Role THEN EnvelopeBlob(MaxVersion) ELSE KeyBlob]]

SeedInputs ==
    {NilSeed, CraftedSeed}
        \cup {[isNil |-> FALSE, entries |-> e] :
                e \in UNION {[S -> Blobs] : S \in SUBSET {Role}}}

(***************************************************************************)
(* The operations of MemoryStore, on a store m = [data, consistent].       *)
(***************************************************************************)
NoValue == ""

Found(d) == [value |-> d, err |-> "nil", resource |-> "", names |-> {}]

ErrMetaNotFound(name) ==
    [value |-> NoValue, err |-> "ErrMetaNotFound", resource |-> name, names |-> {}]

ReturnNil == [value |-> NoValue, err |-> "nil", resource |-> "", names |-> {}]

\* with a seed, data is the caller's map itself and consistent holds the
\* consistent name of every seed entry; no version alias is derived
NewMemoryStore(initial) ==
    LET Path(n) == ConsistentName(n, Sum256(initial.entries[n]))
    IN  [data |-> IF initial.isNil THEN EmptyMap ELSE initial.entries,
         consistent |->
            [p \in {Path(n) : n \in DOMAIN initial.entries} |->
                initial.entries[CHOOSE n \in DOMAIN initial.entries : Path(n) = p]]]

\* Get as it would be if it looked in the digest index first
GetConsistentFirst(m, name) ==
    IF name \in DOMAIN m.consistent THEN Found(m.consistent[name])
    ELSE IF name \in DOMAIN m.data THEN Found(m.data[name])
    ELSE ErrMetaNotFound(name)

Get(m, name) ==
    IF name \in DOMAIN m.data THEN Found(m.data[name])
    ELSE IF name \in DOMAIN m.consistent THEN Found(m.consistent[name])
    ELSE ErrMetaNotFound(name)

\* the sentinel "no size given" of the storage package
NoSizeLimit == -1

\* notary.MaxDownloadSize (100 << 20), scaled to the blobs of the model: the
\* key blob is shorter than it, the envelopes are longer
MaxDownloadSize == 8

\* the sizes handed to GetSized
SizeInputs == {NoSizeLimit, 0, Len(KeyBlob), Len(EnvelopeBlob(0))}

\* a call that ends in a run-time panic
Panic(why) == [value |-> NoValue, err |-> "panic", resource |-> why, names |-> {}]

\* return d[:size], nil: a negative bound, or one past the end, panics
SliceTo(d, size) ==
    IF size < 0 \/ size > Len(d)
    THEN Panic("slice bounds out of range")
    ELSE Found(SubSeq(d, 1, size))

\* GetSized as it would be if it cut at size - 1
GetSizedOffByOne(m, name, size) ==
    LET limit == IF size = NoSizeLimit THEN MaxDownloadSize ELSE size
        d == IF name \in DOMAIN m.data THEN m.data[name] ELSE m.consistent[name]
    IN  IF name \in DOMAIN m.data \/ name \in DOMAIN m.consistent
        THEN IF Len(d) < limit THEN Found(d) ELSE SliceTo(d, limit - 1)
        ELSE ErrMetaNotFound(name)

GetSized(m, name, size) ==
    IF name \in DOMAIN m.data
    THEN LET d == m.data[name]
             limit == IF size = NoSizeLimit THEN MaxDownloadSize ELSE size
         IN  IF Len(d) < limit THEN Found(d) ELSE SliceTo(d, limit)
    ELSE IF name \in DOMAIN m.consistent
    THEN LET d == m.consistent[name]
         IN  IF Len(d) < size THEN Found(d) ELSE SliceTo(d, size)
    ELSE ErrMetaNotFound(name)

\* Location as it would be if it named the store after its contents
LocationByContent(m) ==
    [value |-> IF m.data = EmptyMap THEN "memory" ELSE "memory (in use)",
     err |-> "nil", resource |-> "", names |-> {}]

Location(m) == [value |-> "memory", err |-> "nil", resource |-> "", names |-> {}]

\* Set as it would be if it inserted only names that are not stored yet
SetKeepsExisting(m, name, meta) ==
    LET parsedMeta == Unmarshal(meta)
        versionedName == VersionedName(parsedMeta.version, name)
        named == IF name \in DOMAIN m.data THEN m.data ELSE MapPut(m.data, name, meta)
    IN  [data |-> IF parsedMeta.err = "nil"
                  THEN MapPut(named, versionedName, meta)
                  ELSE named,
         consistent |-> MapPut(m.consistent, ConsistentName(name, Sum256(meta)), meta)]

\* Set as it would be if it ignored the decode error
SetIgnoresDecodeError(m, name, meta) ==
    LET parsedMeta == Unmarshal(meta)
        versionedName == VersionedName(parsedMeta.version, name)
    IN  [data |-> MapPut(MapPut(m.data, name, meta), versionedName, meta),
         consistent |-> MapPut(m.consistent, ConsistentName(name, Sum256(meta)), meta)]

\* Set as it would be if it stored no version alias
SetWithoutVersion(m, name, meta) ==
    [data |-> MapPut(m.data, name, meta),
     consistent |-> MapPut(m.consistent, ConsistentName(name, Sum256(meta)), meta)]

\* Set as it would be if it hashed the name instead of the blob
SetDigestOfName(m, name, meta) ==
    LET named == MapPut(m.data, name, meta)
        parsedMeta == Unmarshal(meta)
        versionedName == VersionedName(parsedMeta.version, name)
        path == ConsistentName(name, Sum256(name))
    IN  [data |-> IF parsedMeta.err = "nil"
                  THEN MapPut(named, versionedName, meta)
                  ELSE named,
         consistent |-> MapPut(m.consistent, path, meta)]

\* Set as it would be if the version alias took the blob the name held
\* before the call
SetAliasesPrevious(m, name, meta) ==
    LET parsedMeta == Unmarshal(meta)
        versionedName == VersionedName(parsedMeta.version, name)
        previous == IF name \in DOMAIN m.data THEN m.data[name] ELSE NoValue
        named == MapPut(m.data, name, meta)
    IN  [data |-> IF parsedMeta.err = "nil"
                  THEN MapPut(named, versionedName, previous)
                  ELSE named,
         consistent |-> MapPut(m.consistent, ConsistentName(name, Sum256(meta)), meta)]

Set(m, name, meta) ==
    LET named == MapPut(m.data, name, meta)
        parsedMeta == Unmarshal(meta)
        versionedName == VersionedName(parsedMeta.version, name)
        path == ConsistentName(name, Sum256(meta))
    IN  [data |-> IF parsedMeta.err = "nil"
                  THEN MapPut(named, versionedName, meta)
                  ELSE named,
         consistent |-> MapPut(m.consistent, path, meta)]

\* the range loop of SetMulti, visiting the keys of metas in the given order
RECURSIVE SetEach(_, _, _)
SetEach(m, metas, order) ==
    IF Len(order) = 0 THEN m
    ELSE SetEach(Set(m, Head(order), metas[Head(order)]), metas, Tail(order))

SetMulti(m, metas, order) == SetEach(m, metas, order)

\* Remove as it would be if it also purged the version aliases of the name
RemoveWithVersions(m, name) ==
    IF name \in DOMAIN m.data
    THEN LET path == ConsistentName(name, Sum256(m.data[name]))
             aliases == {n \in DOMAIN m.data : \E v \in Versions : n = VersionedName(v, name)}
         IN  [data |-> [n \in (DOMAIN m.data) \ ({name} \cup aliases) |-> m.data[n]],
              consistent |-> MapDelete(m.consistent, path)]
    ELSE m

\* Remove as it would be if it deleted the name from both maps
RemoveByKey(m, name) ==
    [data |-> MapDelete(m.data, name), consistent |-> MapDelete(m.consistent, name)]

Remove(m, name) ==
    IF name \in DOMAIN m.data
    THEN LET path == ConsistentName(name, Sum256(m.data[name]))
         IN  [data |-> MapDelete(m.data, name),
              consistent |-> MapDelete(m.consistent, path)]
    ELSE m

\* RemoveAll as it would be if it reset the plain names only
RemoveAllKeepsConsistent(m) == [data |-> EmptyMap, consistent |-> m.consistent]

RemoveAll(m) == NewMemoryStore(NilSeed)

\* ListFiles as it would be if it ranged over both maps
ListFilesBothMaps(m) ==
    [value |-> NoValue, err |-> "nil", resource |-> "",
     names |-> (DOMAIN m.data) \cup (DOMAIN m.consistent)]

\* ListFiles as it would be if it left out the version aliases
ListFilesWithoutVersions(m) ==
    [value |-> NoValue, err |-> "nil", resource |-> "",
     names |-> {n \in DOMAIN m.data :
                    ~ \E r \in DOMAIN m.data, v \in Versions : n = VersionedName(v, r)}]

\* the keys of data; the slice comes in the map's iteration order, so the
\* result is the set of its elements
ListFiles(m) ==
    [value |-> NoValue, err |-> "nil", resource |-> "", names |-> DOMAIN m.data]

(***************************************************************************)
(* The state machine: one store, driven by a caller.                       *)
(*   data, consistent   the two maps of the MemoryStore                    *)
(*   call               the last call made and its arguments               *)
(*   result             what that call returned                            *)
(*   before             the store as it was when that call was made        *)
(*   calls              the number of calls made so far                    *)
(*   lastSet            per name, the blob of the latest Set(name, _) (or  *)
(*                      the seed value) since the name was last removed    *)
(*   lastWrite          per name, the blob of the latest Set that stored   *)
(*                      under the name, as its own name or as the version  *)
(*                      alias of another, since the name was last removed  *)
(*   callerMap          the map the caller handed to NewMemoryStore, as    *)
(*                      the caller sees it                                 *)
(*   shared             whether m.data is that very map                    *)
(***************************************************************************)
VARIABLES data, consistent, call, result, before, calls, lastSet, lastWrite,
          callerMap, shared

vars ==
    <<data, consistent, call, result, before, calls, lastSet, lastWrite,
      callerMap, shared>>

store == [data |-> data, consistent |-> consistent]

Call(op, name, meta, metas, order) ==
    [op |-> op, name |-> name, meta |-> meta, metas |-> metas, order |-> order,
     size |-> 0]

\* the history a Set(name, meta) leaves, names given to Set only
NoteSet(h, name, meta) == MapPut(h, name, meta)

\* the history a Set(name, meta) leaves, version aliases included
NoteWrite(h, name, meta) ==
    IF Unmarshal(meta).err = "nil"
    THEN MapPut(MapPut(h, name, meta), VersionedName(Unmarshal(meta).version, name), meta)
    ELSE MapPut(h, name, meta)

\* the histories the Sets of a SetMulti leave, in the order it made them
RECURSIVE NoteSetEach(_, _, _)
NoteSetEach(h, metas, order) ==
    IF Len(order) = 0 THEN h
    ELSE NoteSetEach(NoteSet(h, Head(order), metas[Head(order)]), metas, Tail(order))

RECURSIVE NoteWriteEach(_, _, _)
NoteWriteEach(h, metas, order) ==
    IF Len(order) = 0 THEN h
    ELSE NoteWriteEach(NoteWrite(h, Head(order), metas[Head(order)]), metas, Tail(order))

\* the caller's map once m.data holds newData: a Go map is a reference, so
\* while m.data is the caller's map every write to it shows there
CallerSees(newData) ==
    IF shared THEN [callerMap EXCEPT !.entries = newData] ELSE callerMap

Init ==
    \E initial \in SeedInputs :
        /\ data = NewMemoryStore(initial).data
        /\ consistent = NewMemoryStore(initial).consistent
        /\ call = Call("NewMemoryStore", "", "", initial.entries, <<>>)
        /\ result = ReturnNil
        /\ before = NewMemoryStore(NilSeed)
        /\ calls = 0
        /\ lastSet = initial.entries
        /\ lastWrite = initial.entries
        /\ callerMap = initial
        /\ shared = ~ initial.isNil

SetCall ==
    \E name \in NameInputs, meta \in Blobs :
        /\ calls < MaxCalls
        /\ data' = Set(store, name, meta).data
        /\ consistent' = Set(store, name, meta).consistent
        /\ call' = Call("Set", name, meta, EmptyMap, <<>>)
        /\ result' = ReturnNil
        /\ before' = store
        /\ calls' = calls + 1
        /\ lastSet' = NoteSet(lastSet, name, meta)
        /\ lastWrite' = NoteWrite(lastWrite, name, meta)
        /\ callerMap' = CallerSees(Set(store, name, meta).data)
        /\ shared' = shared

SetMultiCall ==
    \E metas \in MultiInputs :
        \E order \in Orders(DOMAIN metas) :
            /\ calls < MaxCalls
            /\ data' = SetMulti(store, metas, order).data
            /\ consistent' = SetMulti(store, metas, order).consistent
            /\ call' = Call("SetMulti", "", "", metas, order)
            /\ result' = ReturnNil
            /\ before' = store
            /\ calls' = calls + 1
            /\ lastSet' = NoteSetEach(lastSet, metas, order)
            /\ lastWrite' = NoteWriteEach(lastWrite, metas, order)
            /\ callerMap' = CallerSees(SetMulti(store, metas, order).data)
            /\ shared' = shared

RemoveCall ==
    \E name \in NameInputs :
        /\ calls < MaxCalls
        /\ data' = Remove(store, name).data
        /\ consistent' = Remove(store, name).consistent
        /\ call' = Call("Remove", name, "", EmptyMap, <<>>)
        /\ result' = ReturnNil
        /\ before' = store
        /\ calls' = calls + 1
        /\ lastSet' = MapDelete(lastSet, name)
        /\ lastWrite' = MapDelete(lastWrite, name)
        /\ callerMap' = CallerSees(Remove(store, name).data)
        /\ shared' = shared

RemoveAllCall ==
    /\ calls < MaxCalls
    /\ data' = RemoveAll(store).data
    /\ consistent' = RemoveAll(store).consistent
    /\ call' = Call("RemoveAll", "", "", EmptyMap, <<>>)
    /\ result' = ReturnNil
    /\ before' = store
    /\ calls' = calls + 1
    /\ lastSet' = EmptyMap
    /\ lastWrite' = EmptyMap
    /\ callerMap' = callerMap
    /\ shared' = FALSE

GetCall ==
    \E name \in QueryNames :
        /\ call' = Call("Get", name, "", EmptyMap, <<>>)
        /\ result' = Get(store, name)
        /\ calls < MaxCalls
        /\ before' = store
        /\ calls' = calls + 1
        /\ UNCHANGED <<data, consistent, lastSet, lastWrite, callerMap, shared>>

ListFilesCall ==
    /\ call' = Call("ListFiles", "", "", EmptyMap, <<>>)
    /\ result' = ListFiles(store)
    /\ calls < MaxCalls
    /\ before' = store
    /\ calls' = calls + 1
    /\ UNCHANGED <<data, consistent, lastSet, lastWrite, callerMap, shared>>

GetSizedCall ==
    \E name \in SizedNames, size \in SizeInputs :
        /\ calls < MaxCalls
        /\ call' = [Call("GetSized", name, "", EmptyMap, <<>>) EXCEPT !.size = size]
        /\ result' = GetSized(store, name, size)
        /\ before' = store
        /\ calls' = calls + 1
        /\ UNCHANGED <<data, consistent, lastSet, lastWrite, callerMap, shared>>

LocationCall ==
    /\ calls < MaxCalls
    /\ call' = Call("Location", "", "", EmptyMap, <<>>)
    /\ result' = Location(store)
    /\ before' = store
    /\ calls' = calls + 1
    /\ UNCHANGED <<data, consistent, lastSet, lastWrite, callerMap, shared>>

Next ==
    \/ SetCall
    \/ SetMultiCall
    \/ RemoveCall
    \/ RemoveAllCall
    \/ GetCall
    \/ ListFilesCall
    \/ GetSizedCall
    \/ LocationCall

Spec == Init /\ [][Next]_vars

\* the caller assigns to, or deletes from, the map it handed to
\* NewMemoryStore (a nil map cannot be written)
CallerWrites ==
    \E name \in {Role}, change \in Blobs \cup {NoValue} :
        LET written == IF change = NoValue
                       THEN MapDelete(callerMap.entries, name)
                       ELSE MapPut(callerMap.entries, name, change)
        IN  /\ calls < MaxCalls
            /\ ~ callerMap.isNil
            /\ callerMap' = [callerMap EXCEPT !.entries = written]
            /\ data' = IF shared THEN written ELSE data
            /\ call' = Call("CallerWrites", name, change, EmptyMap, <<>>)
            /\ result' = ReturnNil
            /\ before' = store
            /\ calls' = calls + 1
            /\ UNCHANGED <<consistent, lastSet, lastWrite, shared>>

NextWithCaller == Next \/ CallerWrites

\* the store together with a caller that keeps using its seed map
SpecWithCaller == Init /\ [][NextWithCaller]_vars

(***************************************************************************)
(* Sanity of the model.                                                    *)
(***************************************************************************)
TypeOK ==
    /\ \A n \in DOMAIN data : data[n] \in Blobs
    /\ \A n \in DOMAIN consistent : consistent[n] \in Blobs
    /\ calls \in 0..MaxCalls
    /\ shared \in BOOLEAN
    /\ shared => (~ callerMap.isNil /\ callerMap.entries = data)

\* the scaled digest separates the blobs of the model, as sha256 does
DigestInjective ==
    \A a, b \in Blobs : Sum256(a) = Sum256(b) => a = b

\* the envelope of version v decodes to v, and the key blob does not decode
UnmarshalRoundTrip ==
    /\ \A v \in Versions :
        Decode(EnvelopeBlob(v)) = [err |-> "nil", version |-> v]
    /\ Decode(KeyBlob).err # "nil"

(***************************************************************************)
(* The claims.  Each is a predicate on the state a call leaves: call and   *)
(* before say which call it was and what the store held when it was made.  *)
(***************************************************************************)
\* every name a lookup can meet in the state: the query names and every key
\* of the store now and before the call
KnownNames ==
    QueryNames \cup DOMAIN data \cup DOMAIN consistent
        \cup DOMAIN before.data \cup DOMAIN before.consistent

\* the version alias Set(name, meta) stores, if meta decodes
HasAlias(meta) == Unmarshal(meta).err = "nil"

AliasOf(name, meta) == VersionedName(Unmarshal(meta).version, name)

\* C1: immediately after Set(R, B), Get(consistentName(R, digest(B)))
\* returns exactly B, whatever was stored before.
C1_GetByConsistentNameAfterSet ==
    call.op = "Set" =>
        Get(store, ConsistentName(call.name, Sum256(call.meta))) = Found(call.meta)

\* C2: immediately after Set(R, B), Get(R) returns exactly B.
C2_GetAfterSet ==
    call.op = "Set" => Get(store, call.name) = Found(call.meta)

\* C2 witness: a Set that replaced a different blob stored under the name
C2_Witness ==
    /\ call.op = "Set"
    /\ call.name \in DOMAIN before.data
    /\ before.data[call.name] # call.meta
    /\ Get(store, call.name).value = call.meta

\* C3: if B is an envelope of version V >= 0, then after Set(R, B),
\* Get("V.R") returns exactly B; if B does not decode, Set(R, B) returns nil
\* and adds no key but R to the plain-name index.
C3_VersionedNameAfterSet ==
    call.op = "Set" =>
        /\ result = ReturnNil
        /\ \A v \in Versions :
            call.meta = EnvelopeBlob(v) =>
                Get(store, Itoa(v) \o "." \o call.name) = Found(call.meta)
        /\ call.meta = KeyBlob =>
            /\ DOMAIN data = DOMAIN before.data \cup {call.name}
            /\ \A n \in DOMAIN before.data \ {call.name} : data[n] = before.data[n]

\* C3 witness: a Set of an envelope under a name whose alias was not stored
C3_Witness ==
    /\ call.op = "Set"
    /\ \E v \in Versions :
        /\ call.meta = EnvelopeBlob(v)
        /\ Itoa(v) \o "." \o call.name \notin DOMAIN before.data
        /\ Get(store, Itoa(v) \o "." \o call.name).value = call.meta

C5_NotFoundAfterRemove ==
    (call.op = "Remove" /\ call.name \in DOMAIN before.data) =>
        Get(store, call.name) = ErrMetaNotFound(call.name)

\* C6: Remove(R) deletes byName[R] and
\* byDigest[consistentName(R, digest(byName[R]))] and nothing else: the
\* version aliases of R and the entries of every other name are unchanged and
\* resolve through Get as before.
C6_RemoveDeletesTwoEntries ==
    (call.op = "Remove" /\ call.name \in DOMAIN before.data) =>
        LET path == ConsistentName(call.name, Sum256(before.data[call.name]))
        IN  /\ DOMAIN data = DOMAIN before.data \ {call.name}
            /\ DOMAIN consistent = DOMAIN before.consistent \ {path}
            /\ \A n \in DOMAIN data : data[n] = before.data[n]
            /\ \A n \in DOMAIN consistent : consistent[n] = before.consistent[n]
            /\ \A n \in KnownNames \ {call.name, path} :
                Get(store, n) = Get(before, n)

\* C6 witness: a Remove of a name whose digest entry was stored and one of
\* whose version aliases is still there afterwards
C6_Witness ==
    /\ call.op = "Remove"
    /\ call.name \in DOMAIN before.data
    /\ ConsistentName(call.name, Sum256(before.data[call.name])) \in DOMAIN before.consistent
    /\ \E v \in Versions :
        /\ VersionedName(v, call.name) \in DOMAIN data
        /\ Get(store, VersionedName(v, call.name)) = Found(EnvelopeBlob(v))

\* C7: Remove(R) of a name R that is not in the plain-name index returns nil
\* and leaves both indexes as they were; a second Remove(R) changes nothing.
C7_RemoveAbsentIsNoOp ==
    call.op = "Remove" =>
        /\ result = ReturnNil
        /\ call.name \notin DOMAIN before.data =>
            (data = before.data /\ consistent = before.consistent)
        /\ Remove(store, call.name) = store

\* C7 witness: a Remove of a name that is no plain name but is a key of the
\* digest index
C7_Witness ==
    /\ call.op = "Remove"
    /\ call.name \notin DOMAIN before.data
    /\ call.name \in DOMAIN before.consistent
    /\ before.data # EmptyMap

\* C8: after RemoveAll() both indexes are empty, ListFiles() is empty, Get of
\* every name, the digest and version names that resolved before included,
\* yields ErrMetaNotFound, and the store can be written and read again.
C8_RemoveAllEmpties ==
    call.op = "RemoveAll" =>
        /\ result = ReturnNil
        /\ data = EmptyMap
        /\ consistent = EmptyMap
        /\ ListFiles(store).names = {}
        /\ \A n \in KnownNames : Get(store, n) = ErrMetaNotFound(n)
        /\ \A n \in NameInputs, b \in Blobs :
            /\ Get(Set(store, n, b), n) = Found(b)
            /\ Remove(store, n) = store

\* C8 witness: a RemoveAll of a store that held plain names, a version alias
\* and several digest entries
C8_Witness ==
    /\ call.op = "RemoveAll"
    /\ Cardinality(DOMAIN before.consistent) >= 2
    /\ \E v \in Versions : VersionedName(v, Role) \in DOMAIN before.data
    /\ \E n \in DOMAIN before.consistent :
        n \notin DOMAIN before.data /\ Get(before, n).err = "nil"

\* C9: SetMulti(M) leaves the same store whatever order its entries are
\* applied in.
C9_SetMultiOrderIrrelevant ==
    call.op = "SetMulti" =>
        \A order \in Orders(DOMAIN call.metas) :
            SetMulti(before, call.metas, order) = store

\* C10 as stated: ListFiles() returns exactly the plain role names stored,
\* the names given to Set or seeded and not removed since: no version alias
\* that only Set created, no digest-addressed name.
C10_ListsOnlyGivenNames ==
    call.op = "ListFiles" => result.names = DOMAIN lastSet

\* C10 as amended: ListFiles() returns exactly the keys of the plain-name
\* index: the names stored by Set (the given name and, for a blob that
\* decodes, its version alias) or seeded and not removed since; it never
\* returns a name that is a key of the digest index only.
C10_ListsPlainIndexKeys ==
    call.op = "ListFiles" =>
        /\ result.err = "nil"
        /\ result.names = DOMAIN lastWrite
        /\ \A n \in DOMAIN consistent : n \notin DOMAIN data => n \notin result.names

\* C10 witness: a listing that holds a version alias no Set was given, while
\* the digest index holds names that are not listed
C10_Witness ==
    /\ call.op = "ListFiles"
    /\ \E n \in result.names : n \notin DOMAIN lastSet
    /\ \E n \in DOMAIN consistent : n \notin result.names

\* C11: after Set(R, B) where B decodes with version V, ListFiles() holds
\* both R and "V.R", and every name ListFiles() returns resolves through Get
\* as it is, to the blob the plain-name index holds for it.
C11_ListedNamesResolve ==
    /\ \A n \in ListFiles(store).names : Get(store, n) = Found(data[n])
    /\ call.op = "Set" =>
        \A v \in Versions :
            call.meta = EnvelopeBlob(v) =>
                {call.name, Itoa(v) \o "." \o call.name} \subseteq ListFiles(store).names

\* C11 witness: a Set of an envelope after which the listing holds the name,
\* its version alias and nothing that fails to resolve
C11_Witness ==
    /\ call.op = "Set"
    /\ HasAlias(call.meta)
    /\ AliasOf(call.name, call.meta) \notin ListFiles(before).names
    /\ AliasOf(call.name, call.meta) \in ListFiles(store).names
    /\ Get(store, AliasOf(call.name, call.meta)) = Found(call.meta)

\* the name of the call is a key of the plain-name index, of the digest index
InData == call.name \in DOMAIN before.data

InConsistent == call.name \in DOMAIN before.consistent

\* the size GetSized is documented to cut at
EffectiveSize == IF call.size = NoSizeLimit THEN MaxDownloadSize ELSE call.size

\* the first n bytes of d, all of d when it is shorter than n
FirstBytes(d, n) == IF Len(d) < n THEN d ELSE SubSeq(d, 1, n)

\* C12: GetSized(name, size) looks the name up as Get does and applies one
\* size rule whichever index resolves it: with the effective size being
\* MaxDownloadSize for NoSizeLimit and size otherwise, it returns the blob
\* when it is shorter than the effective size and its first effective-size
\* bytes otherwise, without failing.
C12_OneSizeRuleForBothIndexes ==
    call.op = "GetSized" =>
        IF InData THEN result = Found(FirstBytes(before.data[call.name], EffectiveSize))
        ELSE IF InConsistent
        THEN result = Found(FirstBytes(before.consistent[call.name], EffectiveSize))
        ELSE result = ErrMetaNotFound(call.name)

\* C13: for a plain name R holding B, GetSized(R, size) returns B when
\* size >= len(B), the first size bytes of B and no error when
\* 0 <= size < len(B), and the first MaxDownloadSize bytes of B when size is
\* NoSizeLimit and len(B) > MaxDownloadSize.
C13_SizedReadOfPlainName ==
    (call.op = "GetSized" /\ InData) =>
        LET B == before.data[call.name]
        IN  /\ call.size >= Len(B) => result = Found(B)
            /\ (0 <= call.size /\ call.size < Len(B)) =>
                result = Found(SubSeq(B, 1, call.size))
            /\ (call.size = NoSizeLimit /\ Len(B) > MaxDownloadSize) =>
                result = Found(SubSeq(B, 1, MaxDownloadSize))

\* C13 witness: a GetSized(R, NoSizeLimit) of a plain name whose blob is
\* longer than MaxDownloadSize, cut to MaxDownloadSize bytes
C13_Witness ==
    /\ call.op = "GetSized"
    /\ InData
    /\ call.size = NoSizeLimit
    /\ Len(before.data[call.name]) > MaxDownloadSize
    /\ result.err = "nil"
    /\ Len(result.value) = MaxDownloadSize

\* C14: Get(name) and GetSized(name, size) return
\* ErrMetaNotFound{Resource: name} exactly when name is a key of neither
\* index; when it is a key of both, what is returned is the plain-name
\* value (for GetSized, its leading bytes).  Set, SetMulti, Remove and
\* RemoveAll return nil.
C14_NotFoundOnlyWhenAbsent ==
    /\ call.op \in {"Get", "GetSized"} =>
        /\ result.err = "ErrMetaNotFound" <=> (~ InData /\ ~ InConsistent)
        /\ result.err = "ErrMetaNotFound" => result = ErrMetaNotFound(call.name)
    /\ (call.op = "Get" /\ InData /\ InConsistent) =>
        result = Found(before.data[call.name])
    /\ (call.op = "GetSized" /\ InData /\ InConsistent /\ call.size >= 0) =>
        \E n \in 0..Len(before.data[call.name]) :
            result = Found(SubSeq(before.data[call.name], 1, n))
    /\ call.op \in {"Set", "SetMulti", "Remove", "RemoveAll"} => result = ReturnNil

\* C14 witness: a Get of a name that is a key of both indexes, with
\* different blobs
C14_Witness ==
    /\ call.op = "Get"
    /\ InData
    /\ InConsistent
    /\ before.data[call.name] # before.consistent[call.name]
    /\ result = Found(before.data[call.name])

\* C15: Set is idempotent: after Set(R, B), a second Set(R, B) leaves both
\* indexes exactly as the first left them.
C15_SetIsIdempotent ==
    call.op = "Set" => Set(store, call.name, call.meta) = store

\* C15 witness: a Set(R, B) of an envelope made on the store that a
\* Set(R, B) had left, and that it left unchanged
C15_Witness ==
    /\ call.op = "Set"
    /\ HasAlias(call.meta)
    /\ call.name \in DOMAIN before.data
    /\ Set(before, call.name, call.meta) = before
    /\ store = before

\* C16: the store shares no structure with its caller: a write of the
\* caller to the map it seeded the store with changes nothing Get or
\* ListFiles return, and a Set, SetMulti or Remove on the store changes
\* nothing in the caller's map.
C16_NoSharingWithCaller ==
    [][/\ call'.op = "CallerWrites" =>
            /\ \A n \in QueryNames :
                Get([data |-> data', consistent |-> consistent'], n) = Get(store, n)
            /\ DOMAIN data' = DOMAIN data
       /\ call'.op \in {"Set", "SetMulti", "Remove"} => callerMap' = callerMap]_vars

\* C17: right after NewMemoryStore(initial), for every seed entry (R, B)
\* Get(R) and Get(consistentName(R, digest(B))) both return B and no
\* version-prefixed key "V.R" exists even when B parses with version V;
\* NewMemoryStore(nil) has two empty indexes.
C17_SeededStore ==
    call.op = "NewMemoryStore" =>
        /\ callerMap.isNil => (data = EmptyMap /\ consistent = EmptyMap)
        /\ \A R \in DOMAIN callerMap.entries :
            LET B == callerMap.entries[R]
            IN  /\ Get(store, R) = Found(B)
                /\ Get(store, ConsistentName(R, Sum256(B))) = Found(B)
                /\ HasAlias(B) =>
                    AliasOf(R, B) \notin DOMAIN data \cup DOMAIN consistent

\* C18: after Set(R, B1) followed by Set(R, B2), B1 and B2 of different
\* versions V1 and V2, Get(R) returns B2 while
\* Get(consistentName(R, digest(B1))) and Get("V1.R") still return B1, and a
\* Remove(R) that follows deletes the digest entry of B2 only, so that the
\* digest entry of B1 still resolves.
C18_HistoryUnderDerivedNames ==
    \A B1 \in Blobs :
        (/\ call.op = "Set"
         /\ HasAlias(call.meta)
         /\ HasAlias(B1)
         /\ Unmarshal(B1).version # Unmarshal(call.meta).version
         /\ Set(before, call.name, B1) = before)
        => LET R == call.name
               B2 == call.meta
               removed == Remove(store, R)
           IN  /\ Get(store, R) = Found(B2)
               /\ Get(store, ConsistentName(R, Sum256(B1))) = Found(B1)
               /\ Get(store, AliasOf(R, B1)) = Found(B1)
               /\ ConsistentName(R, Sum256(B2)) \notin DOMAIN removed.consistent
               /\ Get(removed, ConsistentName(R, Sum256(B1))) = Found(B1)

\* the names that reach the store: the arguments of Set, the keys of the
\* maps given to SetMulti and the keys of the seeds
WrittenNames ==
    NameInputs
        \cup UNION {DOMAIN metas : metas \in MultiInputs}
        \cup UNION {DOMAIN initial.entries : initial \in SeedInputs}

\* C19: every entry (k, b) of the digest index has
\* k = consistentName(r, digest(b)) for a name r that was given to Set or
\* was in the seed.
C19_DigestIndexIntegrity ==
    \A k \in DOMAIN consistent :
        \E r \in WrittenNames : k = ConsistentName(r, Sum256(consistent[k]))

\* C19 witness: a Set added a digest entry to those of a seeded store
C19_Witness ==
    /\ call.op = "Set"
    /\ before.consistent # EmptyMap
    /\ DOMAIN consistent # DOMAIN before.consistent
    /\ Cardinality(DOMAIN consistent) >= 2

\* C20: Get, GetSized, ListFiles and Location leave both indexes as they
\* were, whatever they return, and Location returns the label "memory".
C20_ReadsHaveNoEffect ==
    /\ call.op \in {"Get", "GetSized", "ListFiles", "Location"} =>
        (data = before.data /\ consistent = before.consistent)
    /\ call.op = "Location" => (result.value = "memory" /\ result.err = "nil")

\* C20 witness: Location called on a store that holds entries
C20_Witness ==
    /\ call.op = "Location"
    /\ data # EmptyMap
    /\ consistent # EmptyMap
    /\ store = before

====
